---- MODULE Spec2Model ----
(***************************************************************************)
(* A model of the t-digest of caio/go-tdigest: the mean-sorted summary     *)
(* (summary.go) and the digest operations AddWeighted, Add, Compress and   *)
(* Merge (tdigest.go, the revision with the injectable RNG).               *)
(*                                                                         *)
(* Conventions of the model                                                *)
(*  - A float64 is an exact rational [n |-> numerator, d |-> denominator]  *)
(*    in lowest terms with d > 0; NaN is [n |-> 0, d |-> 0].  Comparisons  *)
(*    with NaN are false, arithmetic with NaN yields NaN, as in IEEE-754.   *)
(*    Rounding and the infinities are not modelled.                        *)
(*  - A centroid count is an unsigned integer of CountBits bits (uint32 in *)
(*    the source); the model scales the width down so that the values fit  *)
(*    the model checker's integers.  The digest total is twice as wide.    *)
(*  - Every outcome of the RNG is an input of the action that draws it.    *)
(***************************************************************************)
EXTENDS Integers, Sequences, FiniteSets, TLC

VARIABLES dg, call, nanUsed, nops, cs, added, stk

vars == <<dg, call, nanUsed, nops, cs, added, stk>>

(***************************************************************************)
(* Bounds of the model.                                                    *)
(***************************************************************************)
\* width, in bits, of a centroid count (uint32 in the source, scaled)
CountBits == 5
\* number of public calls explored after the initial state
MaxOps == 2
\* deepest nesting of Compress inside a Compress replay that is explored
MaxNest == 2
\* arrays up to this length are shuffled with every RNG outcome
FullShuffleLen == 4
\* the serialization calls made on the digests of the first state
MaxCodecOps == 1
\* the calls made on the summary with its cache
MaxSummaryOps == 3
\* the calls of AddWeighted and Compress that are run step by step
MaxCalls == 1
\* the length from which an index is found by binary search (250 in the
\* source, scaled to the summaries that are checked)
ScanLen == 101
\* significant bits of a float32 (24 in the source, scaled)
MantissaBits == 12
\* payload bits of a varint byte (7 in the source, scaled with the counts)
GroupBits == 3

CountWrap == 2 ^ CountBits
TotalWrap == 2 ^ (2 * CountBits)

(***************************************************************************)
(* float64                                                                 *)
(***************************************************************************)
Abs(i) == IF i < 0 THEN -i ELSE i

RECURSIVE GCD(_, _)
GCD(a, b) == IF b = 0 THEN a ELSE GCD(b, a % b)

Rat(num, den) ==
    LET g == GCD(Abs(num), den)
    IN  [n |-> num \div g, d |-> den \div g]

Float(i) == [n |-> i, d |-> 1]

NaN == [n |-> 0, d |-> 0]

IsNaN(x) == x.d = 0

\* x < y of two numbers: by their whole parts, then by what is left
Less(x, y) ==
    LET fx == x.n \div x.d
        fy == y.n \div y.d
    IN  \/ fx < fy
        \/ fx = fy /\ (x.n - fx * x.d) * y.d < (y.n - fy * y.d) * x.d

Lt(x, y) == ~IsNaN(x) /\ ~IsNaN(y) /\ Less(x, y)

Gt(x, y) == Lt(y, x)

Ge(x, y) == ~IsNaN(x) /\ ~IsNaN(y) /\ ~Less(x, y)

\* math.Abs(a - b)
AbsDiff(a, b) ==
    IF IsNaN(a) \/ IsNaN(b) THEN NaN
    ELSE Rat(Abs(a.n * b.d - b.n * a.d), a.d * b.d)

\* math.MaxFloat64: larger than every distance of the model
MaxFloat64 == 1000000

\* x1*w1/(w1+w2) + x2*w2/(w1+w2), the smaller mean first
weightedAverage(x1, w1, x2, w2) ==
    LET swap == Gt(x1, x2)
        a == IF swap THEN x2 ELSE x1
        wa == IF swap THEN w2 ELSE w1
        b == IF swap THEN x1 ELSE x2
        wb == IF swap THEN w1 ELSE w2
    IN  IF IsNaN(a) \/ IsNaN(b) \/ wa + wb = 0 THEN NaN
        ELSE Rat(a.n * wa * b.d + b.n * wb * a.d, a.d * b.d * (wa + wb))

(***************************************************************************)
(* summary: two parallel arrays, means and counts.  owner names the        *)
(* backing arrays: two summaries with the same owner share their storage.  *)
(***************************************************************************)
newSummary(o) == [means |-> <<>>, counts |-> <<>>, owner |-> o]

\* indices are 0-based in the source and 1-based in the sequences
Mean(s, i) == s.means[i + 1]

Count(s, i) == s.counts[i + 1]

SLen(s) == Len(s.means)

\* the first index, if any, of a set of indices; len otherwise
FirstOf(I, len) ==
    IF I = {} THEN len ELSE CHOOSE i \in I : \A j \in I : i <= j

\* sort.Search(n, f) between i and j, f(h) being means[h] > x when strict
\* and means[h] >= x when not
RECURSIVE sortSearch(_, _, _, _, _)
sortSearch(s, x, strict, i, j) ==
    IF i < j
    THEN LET h == (i + j) \div 2
             f == IF strict THEN Gt(Mean(s, h), x) ELSE Ge(Mean(s, h), x)
         IN  IF ~f THEN sortSearch(s, x, strict, h + 1, j)
             ELSE sortSearch(s, x, strict, i, h)
    ELSE i

\* an insertion to the left of the equal means
findInsertionIndexLeft(s, x) ==
    FirstOf({i \in 0..(SLen(s) - 1) : Ge(Mean(s, i), x)}, SLen(s))

\* the linear scan of a short array, the binary search of a long one
findInsertionIndex(s, x) ==
    IF SLen(s) < ScanLen
    THEN FirstOf({i \in 0..(SLen(s) - 1) : Gt(Mean(s, i), x)}, SLen(s))
    ELSE sortSearch(s, x, TRUE, 0, SLen(s))

InsertAt(seq, idx, e) ==
    [k \in 1..(Len(seq) + 1) |->
        IF k <= idx THEN seq[k] ELSE IF k = idx + 1 THEN e ELSE seq[k - 1]]

\* summary.Add: the result and whether an error is returned
summaryAdd(s, key, value) ==
    IF IsNaN(key) THEN [s |-> s, err |-> TRUE]
    ELSE IF value = 0 THEN [s |-> s, err |-> TRUE]
    ELSE LET idx == findInsertionIndex(s, key)
         IN  [s |-> [s EXCEPT !.means = InsertAt(s.means, idx, key),
                              !.counts = InsertAt(s.counts, idx, value)],
              err |-> FALSE]

findIndex(s, x) ==
    IF SLen(s) < ScanLen
    THEN FirstOf({i \in 0..(SLen(s) - 1) : Ge(Mean(s, i), x)}, SLen(s))
    ELSE sortSearch(s, x, FALSE, 0, SLen(s))

Floor(s, x) == findIndex(s, x) - 1

RECURSIVE HeadSumFrom(_, _, _, _)
HeadSumFrom(s, i, end, sum) ==
    IF i >= end THEN sum
    ELSE HeadSumFrom(s, i + 1, end, sum + Count(s, i))

\* the block cache is nil until a summary holds more than 100 centroids
HeadSum(s, end) == HeadSumFrom(s, 0, end, 0)

Swap(s, i, j) ==
    [s EXCEPT !.means = [@ EXCEPT ![i + 1] = s.means[j + 1],
                                  ![j + 1] = s.means[i + 1]],
              !.counts = [@ EXCEPT ![i + 1] = s.counts[j + 1],
                                   ![j + 1] = s.counts[i + 1]]]

RECURSIVE adjustRightFrom(_, _)
adjustRightFrom(s, i) ==
    IF i < SLen(s) /\ Gt(Mean(s, i - 1), Mean(s, i))
    THEN adjustRightFrom(Swap(s, i - 1, i), i + 1)
    ELSE s

\* a setAt that never moves the updated centroid to the right
adjustRightNone(s, index) == s

adjustRight(s, index) == adjustRightFrom(s, index + 1)

RECURSIVE adjustLeftFrom(_, _)
adjustLeftFrom(s, i) ==
    IF i >= 0 /\ Gt(Mean(s, i), Mean(s, i + 1))
    THEN adjustLeftFrom(Swap(s, i, i + 1), i - 1)
    ELSE s

\* a setAt that never moves the updated centroid to the left
adjustLeftNone(s, index) == s

adjustLeft(s, index) == adjustLeftFrom(s, index - 1)

setAt(s, index, mean, count) ==
    LET s1 == [s EXCEPT !.means[index + 1] = mean, !.counts[index + 1] = count]
    IN  adjustLeft(adjustRight(s1, index), index)

\* a Clone that hands out the arrays of the original
CloneShared(s) == s

\* summary.Clone: a deep copy, in storage that nobody else holds
Clone(s) == [means |-> s.means, counts |-> s.counts, owner |-> 0]

(***************************************************************************)
(* RNG: every value the generator may return is a possible outcome.        *)
(***************************************************************************)
\* the outcomes of rng.Float32() < 1/n, Float32() being in [0, 1)
Float32Less(n) == IF n = 1 THEN {TRUE} ELSE {TRUE, FALSE}

\* the scripts of rng.Intn(i + 1), one value for each i of the shuffle loop
\* of an array of length len; long arrays are shuffled with a few scripts
IntnOutcomes(len) ==
    IF len <= FullShuffleLen
    THEN {js \in [2..(len - 1) -> 0..(len - 1)] : \A i \in 2..(len - 1) : js[i] <= i}
    ELSE {[i \in 2..(len - 1) |-> i],
          [i \in 2..(len - 1) |-> 0],
          [i \in 2..(len - 1) |-> i - 1],
          [i \in 2..(len - 1) |-> i \div 2]}

RECURSIVE shuffleFrom(_, _, _)
shuffleFrom(s, i, js) ==
    IF i > 1 THEN shuffleFrom(Swap(s, i, js[i]), i - 1, js) ELSE s

\* shuffle(means, counts, rng), js being what rng.Intn returns
shuffle(s, js) == shuffleFrom(s, SLen(s) - 1, js)

(***************************************************************************)
(* sumCache: the sums of the counts before every fourth index.  cs is a    *)
(* summary s with its cache: present is sumCache != nil, sums[k + 1] is    *)
(* sums[k] of the source, n counts the calls made on it.                   *)
(***************************************************************************)
\* len(s.means) > 100
CacheLen == 100

newSumCache(n) == [present |-> TRUE, sums |-> [k \in 1..(n \div 4) |-> 0], valid |-> -1]

NoCache == [present |-> FALSE, sums |-> <<>>, valid |-> -1]

\* sumCache.Set; sums[idx] past the end of sums is an index out of range
sumCacheSet(c, idx, sum) ==
    IF ~c.present \/ idx < 4 THEN c
    ELSE LET k == idx \div 4 - 1
         IN  IF k = Len(c.sums) THEN [c EXCEPT !.sums = Append(@, sum), !.valid = k]
             ELSE [c EXCEPT !.sums[k + 1] = sum, !.valid = k]

sumCacheInvalidate(c, idx) ==
    IF ~c.present THEN c
    ELSE LET k == idx \div 4 - 1
         IN  IF k - 1 < c.valid THEN [c EXCEPT !.valid = k - 1] ELSE c

\* sumCache.Get: the index the sum is known for, and the sum
sumCacheGet(c, idx) ==
    IF ~c.present \/ idx < 4 \/ c.valid < 0 THEN <<0, 0>>
    ELSE LET k == idx \div 4 - 1
         IN  IF k <= c.valid THEN <<(k + 1) * 4, c.sums[k + 1]>>
             ELSE <<(c.valid + 1) * 4, c.sums[c.valid + 1]>>

\* summary.Add with the cache.  cap(s.means) is taken as len(s.means), the
\* least it can be: the cache then starts with the fewest blocks.
cachedAdd(x, key, value) ==
    LET r == summaryAdd(x.s, key, value)
    IN  IF r.err THEN x
        ELSE [x EXCEPT !.s = r.s,
                       !.cache = IF x.cache.present
                                 THEN sumCacheInvalidate(x.cache, findInsertionIndex(x.s, key))
                                 ELSE IF SLen(r.s) > CacheLen THEN newSumCache(SLen(r.s))
                                 ELSE x.cache]

\* summary.setAt with the cache: the cache is not touched
cachedSetAt(x, index, mean, count) == [x EXCEPT !.s = setAt(x.s, index, mean, count)]

\* the first loop of HeadSum, four counts at a time
RECURSIVE HeadSumBlocks(_, _, _, _, _)
HeadSumBlocks(s, c, i, end, sum) ==
    IF i < end - 3
    THEN HeadSumBlocks(s, sumCacheSet(c, i, sum), i + 4, end,
                       sum + Count(s, i) + Count(s, i + 1) + Count(s, i + 2) + Count(s, i + 3))
    ELSE [cache |-> c, i |-> i, sum |-> sum]

\* summary.HeadSum with the cache: the sum it returns and the cache it leaves
cachedHeadSum(x, end) ==
    LET g == sumCacheGet(x.cache, end)
    IN  IF g[1] = end THEN [cache |-> x.cache, sum |-> g[2]]
        ELSE LET b == HeadSumBlocks(x.s, x.cache, g[1], end, g[2])
             IN  [cache |-> b.cache, sum |-> HeadSumFrom(x.s, b.i, end, b.sum)]

(***************************************************************************)
(* TDigest                                                                 *)
(***************************************************************************)
New(compression, o) ==
    [summary |-> newSummary(o), compression |-> compression, count |-> 0]

RECURSIVE findNeighborsFrom(_, _, _, _, _)
findNeighborsFrom(s, neighbor, start, minDistance, value) ==
    IF neighbor >= SLen(s) THEN <<start, SLen(s)>>
    ELSE LET z == AbsDiff(Mean(s, neighbor), value)
         IN  IF Lt(z, minDistance)
             THEN findNeighborsFrom(s, neighbor + 1, neighbor, z, value)
             ELSE IF Gt(z, minDistance)
             THEN <<start, neighbor>>
             ELSE findNeighborsFrom(s, neighbor + 1, start, minDistance, value)

findNeighbors(t, start, value) ==
    findNeighborsFrom(t.summary, start, start, Float(MaxFloat64), value)

\* q of chooseMergeCandidate, for a centroid of count c after sum samples
Quantile_q(t, sum, c) ==
    IF t.count = 1 THEN Rat(1, 2)
    ELSE Rat(2 * sum + c - 1, 2 * (t.count - 1))

\* k == 4 * count * q * (1 - q) / compression
Threshold_k(t, q) ==
    Rat(4 * t.count * q.n * (q.d - q.n), q.d * q.d * t.compression)

\* c + count <= k
Eligible(t, sum, c, count) ==
    /\ t.count > 0
    /\ LET k == Threshold_k(t, Quantile_q(t, sum, c))
       IN  (c + count) * k.d <= k.n

RECURSIVE chooseFrom(_, _, _, _, _, _, _)
chooseFrom(t, neighbor, end, count, sum, n, closest) ==
    IF neighbor = end THEN {closest}
    ELSE LET c == Count(t.summary, neighbor)
         IN  IF Eligible(t, sum, c, count)
             THEN UNION {chooseFrom(t, neighbor + 1, end, count, sum + c, n + 1,
                                    IF less THEN neighbor ELSE closest)
                         : less \in Float32Less(n + 1)}
             ELSE chooseFrom(t, neighbor + 1, end, count, sum + c, n, closest)

\* the indices chooseMergeCandidate may return, over the outcomes of the RNG
chooseMergeCandidate(t, begin, end, value, count) ==
    chooseFrom(t, begin, end, count, HeadSum(t.summary, begin), 0, SLen(t.summary))

\* an AddWeighted that accepts every weight
IllegalDatapointNever(value, count) == FALSE

\* count == 0 in AddWeighted
IllegalDatapoint(value, count) == count = 0

\* an AddWeighted that never starts a Compress
NeedsCompressNever(t) == FALSE

\* float64(t.summary.Len()) > 20*t.compression
NeedsCompress(t) == SLen(t.summary) > 20 * t.compression

\* uint32(c) + count
AddCount(c, count) == (c + count) % CountWrap

\* t.count += uint64(count)
AddTotal(total, count) == (total + count) % TotalWrap

\* the else branch of AddWeighted: merge the sample into centroid closest
MergeInto(t, closest, value, count) ==
    LET c == Count(t.summary, closest)
        newMean == weightedAverage(Mean(t.summary, closest), c, value, count)
    IN  [t EXCEPT !.summary = setAt(t.summary, closest, newMean, AddCount(c, count))]

\* AddWeighted on an empty summary
AddFirst(t, value, count) ==
    LET r == summaryAdd(t.summary, value, count)
    IN  [t |-> [t EXCEPT !.summary = r.s, !.count = count], err |-> r.err]

RECURSIVE AddWeightedSet(_, _, _, _)
RECURSIVE CompressSet(_, _)
RECURSIVE ReplaySet(_, _, _, _)

\* AddWeighted up to the test that starts a Compress: the digest, the error
\* and whether the Compress is started, over the outcomes of the RNG
AddWeightedBody(t, value, count) ==
    IF IllegalDatapoint(value, count) THEN {[t |-> t, err |-> TRUE, full |-> FALSE]}
    ELSE IF SLen(t.summary) = 0
    THEN {[t |-> AddFirst(t, value, count).t, err |-> AddFirst(t, value, count).err,
           full |-> FALSE]}
    ELSE
      LET floor == Floor(t.summary, value)
          nb == findNeighbors(t, IF floor = -1 THEN 0 ELSE floor, value)
          After(t1) ==
              LET t2 == [t1 EXCEPT !.count = AddTotal(@, count)]
              IN  [t |-> t2, err |-> FALSE, full |-> NeedsCompress(t2)]
          Branch(closest) ==
              IF closest = SLen(t.summary)
              THEN LET r == summaryAdd(t.summary, value, count)
                   IN  IF r.err THEN [t |-> t, err |-> TRUE, full |-> FALSE]
                       ELSE After([t EXCEPT !.summary = r.s])
              ELSE After(MergeInto(t, closest, value, count))
      IN  {Branch(closest) :
           closest \in chooseMergeCandidate(t, nb[1], nb[2], value, count)}

\* the outcomes of t.AddWeighted(value, count), with nest Compress calls
\* on the stack
AddWeightedSet(t, value, count, nest) ==
    UNION {IF r.full THEN CompressSet(r.t, nest) ELSE {[t |-> r.t, err |-> r.err]}
           : r \in AddWeightedBody(t, value, count)}

\* ForEach over data with the AddWeighted callback: the outcomes after the
\* first k centroids; the iteration stops at the first error
ReplaySet(t, data, k, nest) ==
    IF k = 0 THEN {[t |-> t, err |-> FALSE]}
    ELSE UNION {IF p.err THEN {p}
                ELSE AddWeightedSet(p.t, Mean(data, k - 1), Count(data, k - 1), nest)
                : p \in ReplaySet(t, data, k - 1, nest)}

\* the outcomes of t.Compress(); executions nesting Compress deeper than
\* MaxNest are not followed
CompressSet(t, nest) ==
    IF SLen(t.summary) <= 1 THEN {[t |-> t, err |-> FALSE]}
    ELSE IF nest >= MaxNest THEN {}
    ELSE LET oldTree == t.summary
             t1 == [t EXCEPT !.summary = newSummary(oldTree.owner), !.count = 0]
         IN  UNION {ReplaySet(t1, shuffle(oldTree, js), SLen(oldTree), nest + 1)
                    : js \in IntnOutcomes(SLen(oldTree))}

\* a Merge that takes over the compression of an empty donor
MergeEmptyAdopt(t, other) ==
    {[t |-> [t EXCEPT !.compression = other.compression], other |-> other,
      err |-> FALSE]}

\* Merge of a donor without centroids: return nil
MergeEmpty(t, other) == {[t |-> t, other |-> other, err |-> FALSE]}

\* the outcomes of t.Merge(other): the receiver, the donor and the error
MergeSet(t, other) ==
    IF SLen(other.summary) = 0 THEN MergeEmpty(t, other)
    ELSE LET data == Clone(other.summary)
         IN  UNION {LET shuffled == shuffle(data, js)
                        donor == IF data.owner = other.summary.owner
                                 THEN [other EXCEPT !.summary = shuffled]
                                 ELSE other
                    IN  {[t |-> r.t, other |-> donor, err |-> r.err]
                         : r \in ReplaySet(t, shuffled, SLen(shuffled), 0)}
                    : js \in IntnOutcomes(SLen(data))}

(***************************************************************************)
(* Queries.  float64 arithmetic on the exact rationals; a division by zero *)
(* (an infinity or NaN in the source) yields NaN here.                     *)
(***************************************************************************)
Le(x, y) == Ge(y, x)

FAdd(x, y) ==
    IF IsNaN(x) \/ IsNaN(y) THEN NaN
    ELSE LET g == GCD(x.d, y.d)
         IN  Rat(x.n * (y.d \div g) + y.n * (x.d \div g), (x.d \div g) * y.d)

FSub(x, y) ==
    IF IsNaN(x) \/ IsNaN(y) THEN NaN
    ELSE LET g == GCD(x.d, y.d)
         IN  Rat(x.n * (y.d \div g) - y.n * (x.d \div g), (x.d \div g) * y.d)

FMul(x, y) ==
    IF IsNaN(x) \/ IsNaN(y) THEN NaN ELSE Rat(x.n * y.n, x.d * y.d)

FDiv(x, y) ==
    IF IsNaN(x) \/ IsNaN(y) \/ y.n = 0 THEN NaN
    ELSE IF y.n > 0 THEN Rat(x.n * y.d, x.d * y.n)
    ELSE Rat(-(x.n * y.d), x.d * (-y.n))

\* float64(c-1)/2 and float64(c+1)/2, c a uint32
HalfLess(c) == Rat((c - 1) % CountWrap, 2)

HalfMore(c) == Rat((c + 1) % CountWrap, 2)

\* a FloorSum that stops at the first head sum equal to the bound
RECURSIVE FloorSumFromStrict(_, _, _, _, _)
FloorSumFromStrict(s, i, index, cumSum, sum) ==
    IF i < SLen(s) /\ Lt(Float(cumSum), sum)
    THEN FloorSumFromStrict(s, i + 1, i, cumSum + Count(s, i), sum)
    ELSE <<index, cumSum>>

RECURSIVE FloorSumFrom(_, _, _, _, _)
FloorSumFrom(s, i, index, cumSum, sum) ==
    IF i < SLen(s) /\ Le(Float(cumSum), sum)
    THEN FloorSumFrom(s, i + 1, i, cumSum + Count(s, i), sum)
    ELSE <<index, cumSum>>

\* summary.FloorSum: the index found and the sum of the counts before it
FloorSum(s, sum) ==
    LET r == FloorSumFrom(s, 0, -1, 0, sum)
    IN  IF r[1] # -1 THEN <<r[1], r[2] - Count(s, r[1])>> ELSE r

_quantile(index, previousIndex, nextIndex, previousMean, nextMean) ==
    LET delta == FSub(nextIndex, previousIndex)
        previousWeight == FDiv(FSub(nextIndex, index), delta)
        nextWeight == FDiv(FSub(index, previousIndex), delta)
    IN  FAdd(FMul(previousMean, previousWeight), FMul(nextMean, nextWeight))

\* what a query returns: a value, or a panic (an index out of range)
Value(v) == [v |-> v, panic |-> FALSE]

Panic == [v |-> NaN, panic |-> TRUE]

RECURSIVE QuantileFrom(_, _, _, _, _, _)
\* the loop of Quantile
QuantileFrom(t, index, next, total, previousMean, previousIndex) ==
    LET s == t.summary
        nextIndex == FAdd(Float(total), HalfLess(Count(s, next)))
    IN  IF next < 0 \/ next >= SLen(s) THEN Panic
        ELSE IF Ge(nextIndex, index)
        THEN IF IsNaN(previousMean)
             THEN IF nextIndex = previousIndex THEN Value(Mean(s, next))
                  ELSE IF next + 1 >= SLen(s) THEN Panic
                  ELSE LET nextIndex2 ==
                               FAdd(Float(total + Count(s, next)),
                                    HalfLess(Count(s, next + 1)))
                           extrapolated ==
                               FDiv(FSub(FMul(nextIndex2, Mean(s, next)),
                                         FMul(nextIndex, Mean(s, next + 1))),
                                    FSub(nextIndex2, nextIndex))
                       IN  Value(_quantile(index, previousIndex, nextIndex,
                                           extrapolated, Mean(s, next)))
             ELSE Value(_quantile(index, previousIndex, nextIndex, previousMean,
                                  Mean(s, next)))
        ELSE IF next + 1 = SLen(s)
        THEN LET nextIndex2 == Float((t.count - 1) % TotalWrap)
                 nextMean2 ==
                     FDiv(FSub(FMul(Mean(s, next), FSub(nextIndex2, previousIndex)),
                               FMul(previousMean, FSub(nextIndex2, nextIndex))),
                          FSub(nextIndex, previousIndex))
             IN  Value(_quantile(index, nextIndex, nextIndex2, Mean(s, next),
                                 nextMean2))
        ELSE QuantileFrom(t, index, next + 1, total + Count(s, next),
                          Mean(s, next), nextIndex)

\* a Quantile that has no answer for a single centroid
QuantileSingleNaN(t) == Value(NaN)

\* Quantile of a digest of one centroid
QuantileSingle(t) == Value(Mean(t.summary, 0))

\* t.Quantile(q), q in [0, 1]
QuantileOf(t, q) ==
    IF SLen(t.summary) = 0 THEN Value(NaN)
    ELSE IF SLen(t.summary) = 1 THEN QuantileSingle(t)
    ELSE LET index == FMul(q, Float((t.count - 1) % TotalWrap))
             fs == FloorSum(t.summary, index)
             next == fs[1]
             total == fs[2]
         IN  IF next > 0
             THEN QuantileFrom(t, index, next, total, Mean(t.summary, next - 1),
                               FSub(Float(total),
                                    HalfMore(Count(t.summary, next - 1))))
             ELSE QuantileFrom(t, index, next, total, NaN, Float(0))

interpolate(x, x0, x1) == FDiv(FSub(x, x0), FSub(x1, x0))

Half(x) == FDiv(x, Float(2))

RECURSIVE CDFFrom(_, _, _, _, _, _)
\* the loop of CDF and the code after it
CDFFrom(t, value, i, left, right, tot) ==
    LET s == t.summary
    IN  IF i < SLen(s) - 1
        THEN LET prevMean == Mean(s, i - 1)
             IN  IF Lt(value, FAdd(prevMean, right))
                 THEN LET v == FDiv(FAdd(Float(tot),
                                         FMul(Float(Count(s, i - 1)),
                                              interpolate(value, FSub(prevMean, left),
                                                          FAdd(prevMean, right)))),
                                    Float(t.count))
                      IN  IF Gt(v, Float(0)) THEN v ELSE Float(0)
                 ELSE CDFFrom(t, value, i + 1, right,
                              Half(FSub(Mean(s, i + 1), Mean(s, i))),
                              tot + Count(s, i - 1))
        ELSE LET aIdx == SLen(s) - 2
                 aMean == Mean(s, aIdx)
             IN  IF Lt(value, FAdd(aMean, right))
                 THEN FDiv(FAdd(Float(tot),
                                FMul(Float(Count(s, aIdx)),
                                     interpolate(value, FSub(aMean, left),
                                                 FAdd(aMean, right)))),
                           Float(t.count))
                 ELSE Float(1)

\* t.CDF(value)
CDFOf(t, value) ==
    IF SLen(t.summary) = 0 THEN NaN
    ELSE IF SLen(t.summary) = 1
    THEN IF Lt(value, Mean(t.summary, 0)) THEN Float(0) ELSE Float(1)
    ELSE LET left == Half(FSub(Mean(t.summary, 1), Mean(t.summary, 0)))
         IN  CDFFrom(t, value, 1, left, left, 0)

(***************************************************************************)
(* Serialization.  A buffer is a sequence of cells, one cell for each      *)
(* byte.  A fixed-width field is its head cell, which carries the value,   *)
(* followed by pad cells; the bytes of a varint are cells of their own.    *)
(***************************************************************************)
RECURSIVE Pow2(_)
Pow2(e) == IF e = 0 THEN 1 ELSE 2 * Pow2(e - 1)

\* the e with 2^e <= a < 2^(e+1), a > 0
RECURSIVE ExponentFrom(_, _)
ExponentFrom(a, e) ==
    IF Lt(a, Float(1)) THEN ExponentFrom(FMul(a, Float(2)), e - 1)
    ELSE IF Ge(a, Float(2)) THEN ExponentFrom(FDiv(a, Float(2)), e + 1)
    ELSE e

\* the nearest whole number, ties to the even one
RoundHalfEven(r) ==
    LET fl == r.n \div r.d
        rem == r.n - fl * r.d
    IN  IF 2 * rem < r.d THEN fl
        ELSE IF 2 * rem > r.d THEN fl + 1
        ELSE IF fl % 2 = 0 THEN fl ELSE fl + 1

\* float32(x): x rounded to MantissaBits significant bits
float32(x) ==
    IF IsNaN(x) \/ x.n = 0 THEN x
    ELSE LET a == Rat(Abs(x.n), x.d)
             shift == MantissaBits - 1 - ExponentFrom(a, 0)
             scale == IF shift >= 0 THEN Float(Pow2(shift)) ELSE Rat(1, Pow2(-shift))
             m == RoundHalfEven(FMul(a, scale))
             r == FDiv(Float(m), scale)
         IN  IF x.n < 0 THEN Rat(-r.n, r.d) ELSE r

Pad == [k |-> "pad", v |-> Float(0)]

Byte(b) == [k |-> "byte", v |-> Float(b)]

\* a field of width bytes holding v
Field(kind, v, width) ==
    [i \in 1..width |-> IF i = 1 THEN [k |-> kind, v |-> v] ELSE Pad]

\* the largest number of bytes of a varint
MaxVarintLen64 == (2 * CountBits + GroupBits - 1) \div GroupBits

GroupWrap == Pow2(GroupBits)

\* binary.PutUvarint: groups of GroupBits bits, the low group first, a
\* continuation flag on every byte but the last
RECURSIVE PutUvarint(_)
PutUvarint(x) ==
    IF x >= GroupWrap THEN <<Byte((x % GroupWrap) + GroupWrap)>> \o PutUvarint(x \div GroupWrap)
    ELSE <<Byte(x)>>

\* binary.Uvarint on the cells from idx + 1 on: the value and the number of
\* bytes read, 0 when the buffer ends early, negative on overflow
RECURSIVE UvarintFrom(_, _, _, _, _)
UvarintFrom(buf, idx, i, x, weight) ==
    IF i >= MaxVarintLen64 THEN <<0, -(i + 1)>>
    ELSE IF idx + i + 1 > Len(buf) THEN <<0, 0>>
    ELSE LET b == buf[idx + i + 1].v.n
         IN  IF b < GroupWrap THEN <<x + b * weight, i + 1>>
             ELSE UvarintFrom(buf, idx, i + 1, x + (b - GroupWrap) * weight,
                              weight * GroupWrap)

Uvarint(buf, idx) == UvarintFrom(buf, idx, 0, 0, 1)

\* const smallEncoding int32 = 2
smallEncoding == 2

\* the deltas of the means, as they are written: float32(mean - x)
Deltas(s) ==
    [i \in 1..SLen(s) |->
        float32(FSub(s.means[i], IF i = 1 THEN Float(0) ELSE s.means[i - 1]))]

RECURSIVE ConcatAll(_, _)
ConcatAll(seqs, i) ==
    IF i > Len(seqs) THEN <<>> ELSE seqs[i] \o ConcatAll(seqs, i + 1)

\* t.AsBytes()
AsBytesOf(t) ==
    Field("i32", Float(smallEncoding), 4)
    \o Field("f64", Float(t.compression), 8)
    \o Field("i32", Float(SLen(t.summary)), 4)
    \o ConcatAll([i \in 1..SLen(t.summary) |-> Field("f32", Deltas(t.summary)[i], 4)], 1)
    \o ConcatAll([i \in 1..SLen(t.summary) |-> PutUvarint(t.summary.counts[i])], 1)

\* the cells of b with the cells of w written from index idx on
PutAt(b, idx, w) ==
    [i \in 1..Len(b) |-> IF i > idx /\ i <= idx + Len(w) THEN w[i - idx] ELSE b[i]]

\* the fields ws written one after the other from idx on: the buffer and
\* the index after the last byte written
PutFields(b, idx, ws) ==
    LET w == ConcatAll(ws, 1)
    IN  <<PutAt(b, idx, w), idx + Len(w)>>

\* a ToBytes that returns the whole buffer
SliceAll(b, idx) == b

\* b[:idx]
SliceTo(b, idx) == SubSeq(b, 1, idx)

\* t.ToBytes(b), cap(b) being Len(b)
ToBytesOf(t, b) ==
    LET n == SLen(t.summary)
        requiredSize == 16 + 4 * n + n * MaxVarintLen64
        b1 == IF Len(b) < requiredSize THEN [i \in 1..requiredSize |-> Byte(0)] ELSE b
        b2 == PutAt(b1, 0, Field("i32", Float(smallEncoding), 4))
        b3 == PutAt(b2, 4, Field("f64", Float(t.compression), 8))
        b4 == PutAt(b3, 12, Field("i32", Float(n), 4))
        b5 == PutFields(b4, 16, [i \in 1..n |-> Field("f32", Deltas(t.summary)[i], 4)])
        b6 == PutFields(b5[1], b5[2], [i \in 1..n |-> PutUvarint(t.summary.counts[i])])
    IN  SliceTo(b6[1], b6[2])

\* numCentroids < 0 || numCentroids > 1<<22.  The in-place decoder converts
\* the field through uint32 to int: a negative n is then above 1<<22 where
\* int has 64 bits and negative where it has 32, and is refused on both.
BadCount(numCentroids) == numCentroids < 0 \/ numCentroids > Pow2(22)

\* the means of a payload of n centroids: x += float64(delta), delta being
\* the field at 16 + 4 * i
RECURSIVE ReadMeans(_, _, _, _)
ReadMeans(buf, n, i, x) ==
    IF i >= n THEN <<>>
    ELSE LET y == FAdd(x, buf[16 + 4 * i + 1].v)
         IN  <<y>> \o ReadMeans(buf, n, i + 1, y)

\* what a decoder returns: the digest and whether it reports an error
Decoded(t) == [t |-> t, err |-> FALSE, panic |-> FALSE]

Failed(t) == [t |-> t, err |-> TRUE, panic |-> FALSE]

\* the result of the streaming decoder when it fails
Nil == New(0, 0)

\* New(compression) of the streaming decoder panics below 1: no result
Panicked == [t |-> Nil, err |-> FALSE, panic |-> TRUE]

\* the loop of the streaming decoder over the counts: ts are the digests
\* New(compression) may have become after the i centroids added so far, one
\* for each outcome of its random numbers
RECURSIVE ReadCounts(_, _, _, _, _, _)
ReadCounts(buf, idx, ts, means, i, n) ==
    IF i >= n THEN {Decoded(t) : t \in ts}
    ELSE LET u == Uvarint(buf, idx)
         IN  IF u[2] < 1 THEN {Failed(Nil)}
             ELSE ReadCounts(buf, idx + u[2],
                     UNION {{r.t : r \in AddWeightedSet(t, means[i + 1], u[1] % CountWrap, 0)}
                            : t \in ts},
                     means, i + 1, n)

\* FromBytes(buf *bytes.Reader)
FromBytesOf(buf) ==
    IF Len(buf) < 4 THEN {Failed(Nil)}
    ELSE IF buf[1].v # Float(smallEncoding) THEN {Failed(Nil)}
    ELSE IF Len(buf) < 12 THEN {Failed(Nil)}
    ELSE IF buf[5].v.n < 1 THEN {Panicked}
    ELSE IF Len(buf) < 16 THEN {Failed(Nil)}
    ELSE LET t == New(buf[5].v.n, 0)
             numCentroids == buf[13].v.n
         IN  IF BadCount(numCentroids) THEN {Failed(Nil)}
             ELSE IF Len(buf) < 16 + 4 * numCentroids THEN {Failed(Nil)}
             ELSE ReadCounts(buf, 16 + 4 * numCentroids, {t},
                             ReadMeans(buf, numCentroids, 0, Float(0)), 0, numCentroids)

\* arrays that are grown and never cut
ResizeGrow(s, n) ==
    [means |-> [i \in 1..(IF n < SLen(s) THEN SLen(s) ELSE n) |->
                   IF i <= SLen(s) THEN s.means[i] ELSE Float(0)],
     counts |-> [i \in 1..(IF n < SLen(s) THEN SLen(s) ELSE n) |->
                   IF i <= SLen(s) THEN s.counts[i] ELSE 0],
     owner |-> s.owner]

\* the arrays of a summary cut or grown to n cells, a new cell holding zero
Resize(s, n) ==
    [means |-> [i \in 1..n |-> IF i <= SLen(s) THEN s.means[i] ELSE Float(0)],
     counts |-> [i \in 1..n |-> IF i <= SLen(s) THEN s.counts[i] ELSE 0],
     owner |-> s.owner]

\* the loop of the in-place decoder over the counts
RECURSIVE FromBytesCounts(_, _, _, _, _)
FromBytesCounts(t, buf, idx, i, n) ==
    IF i >= n THEN Decoded(t)
    ELSE LET u == Uvarint(buf, idx)
         IN  IF u[2] < 1 THEN Failed(t)
             ELSE FromBytesCounts(
                     [t EXCEPT !.summary.counts[i + 1] = u[1] % CountWrap,
                               !.count = (t.count + u[1]) % TotalWrap],
                     buf, idx + u[2], i + 1, n)

\* the arrays the in-place decoder writes to.  Arrays as long as n are kept
\* and cut; shorter ones are kept when their capacity reaches n and are
\* replaced by newSummary(n) when it does not, and both can happen.
Arrays(s, n) ==
    IF n <= SLen(s) THEN {Resize(s, n)}
    ELSE {Resize(s, n), Resize(newSummary(s.owner), n)}

\* t.FromBytes(buf []byte)
FromBytesInto(t, buf) ==
    IF Len(buf) < 16 THEN {Failed(t)}
    ELSE IF buf[1].v # Float(smallEncoding) THEN {Failed(t)}
    ELSE LET compression == buf[5].v.n
             numCentroids == buf[13].v.n
         IN  IF BadCount(numCentroids) THEN {Failed(t)}
             ELSE IF Len(buf) < 16 + 4 * numCentroids THEN {Failed(t)}
             ELSE {FromBytesCounts(
                      [summary |-> [s1 EXCEPT !.means =
                                       ReadMeans(buf, numCentroids, 0, Float(0))],
                       compression |-> compression, count |-> 0],
                      buf, 16 + 4 * numCentroids, 0, numCentroids)
                   : s1 \in Arrays(t.summary, numCentroids)}

(***************************************************************************)
(* The state machine: two digests and the public calls on them.            *)
(*   dg       the digests                                                  *)
(*   call     the last call: its arguments, the error it returned and the  *)
(*            digests before it                                            *)
(*   nanUsed  whether a NaN value was ever passed to Add or AddWeighted    *)
(*   nops     the number of calls made                                     *)
(*   cs       a summary with its sumCache, and the calls made on it alone  *)
(*   added    the values every digest has been given                       *)
(*   stk      the Compress calls that are running, the innermost first:    *)
(*            the centroids each replays and how many it has replayed      *)
(***************************************************************************)
Ids == {1, 2}

\* Compression(c) of each digest
CompressionOf == <<1, 2>>

\* the values and the weights passed to Add and AddWeighted of each digest
ValuesOf == <<{Float(10), Rat(19, 2), Rat(21, 2), Float(30), NaN}, {Float(30)}>>

WeightsOf == <<{0, 4}, {0, 4}>>

\* the arguments of Quantile and of CDF
Quantiles == {Float(0), Rat(1, 4), Rat(1, 2), Rat(3, 5), Rat(7, 10), Float(1)}

CDFValues == {Float(-100), Float(0), Rat(19, 2), Float(100)}

\* the calls Add(1), Add(2), ..., Add(k)
Ascending(k) == [i \in 1..k |-> <<Float(i), 1>>]

\* three centroids of the largest count
Heavy ==
    <<<<Float(0), CountWrap - 1>>, <<Float(10), CountWrap - 1>>,
      <<Float(30), CountWrap - 1>>>>

\* two light centroids below a heavier one
Lopsided == <<<<Float(10), 10>>, <<Float(0), 1>>, <<Float(5), 1>>>>

\* a heavy centroid and two light ones above it, the higher one added first
Skewed == <<<<Float(0), 20>>, <<Float(6), 1>>, <<Float(5), 4>>>>

\* the AddWeighted calls a digest has served before the first state
ScriptsOf ==
    <<{<<>>, Ascending(19), Ascending(20),
       Ascending(19) \o <<<<Float(10), CountWrap - 1>>>>, Heavy, Lopsided, Skewed},
      {<<>>, Ascending(2), Ascending(3)}>>

RECURSIVE RunScript(_, _, _)
RunScript(t, script, k) ==
    IF k = 0 THEN {t}
    ELSE UNION {{r.t : r \in AddWeightedSet(p, script[k][1], script[k][2], 0)}
                : p \in RunScript(t, script, k - 1)}

\* the digests a program holds after New and one of the scripts
InitDigests(i) ==
    UNION {RunScript(New(CompressionOf[i], i), script, Len(script))
           : script \in ScriptsOf[i]}

\* the summary k calls Add(1, 1), Add(2, 1), ..., Add(k, 1) leave, for k up
\* to CacheLen + 1: the call that makes it longer than CacheLen makes the cache
Filled(k) ==
    [s |-> [means |-> [i \in 1..k |-> Float(i)], counts |-> [i \in 1..k |-> 1],
            owner |-> 0],
     cache |-> IF k > CacheLen THEN newSumCache(k) ELSE NoCache,
     n |-> 0, op |-> "newSummary", pre |-> newSummary(0), mean |-> NaN, count |-> 0,
     index |-> 0, res |-> <<0, 0>>]

NoSummary == Filled(0)

\* what a call reads and returns besides its result: the buffer it is given,
\* the bytes it returns and the digest it returns
IO(buf, bytes, decoded) == [buf |-> buf, bytes |-> bytes, decoded |-> decoded]

NoIO == IO(<<>>, <<>>, Nil)

NoCall(d) ==
    [op |-> "New", rcv |-> 0, other |-> 0, value |-> NaN, count |-> 0,
     err |-> FALSE, pre |-> d, result |-> Value(NaN), io |-> NoIO]

\* the values a digest has been given: the arguments of the AddWeighted
\* calls that stored them, and whether these are all of them (they are not
\* once a Merge has stopped part way at an error)
Given(values, whole) == [values |-> values, whole |-> whole]

GivenBy(script) == Given({script[k][1] : k \in 1..Len(script)}, TRUE)

\* the values Merge and the decoders pass on: the means of the centroids
MeansOf(t) == {t.summary.means[k] : k \in 1..SLen(t.summary)}

\* one script for every digest
Scripts ==
    {f \in [Ids -> UNION {ScriptsOf[i] : i \in Ids}] : \A i \in Ids : f[i] \in ScriptsOf[i]}

Init ==
    /\ \E f \in Scripts :
          /\ dg \in {d \in [Ids -> UNION {InitDigests(i) : i \in Ids}] :
                     \A i \in Ids :
                        d[i] \in RunScript(New(CompressionOf[i], i), f[i], Len(f[i]))}
          /\ added = [i \in Ids |-> GivenBy(f[i])]
    /\ call = NoCall(dg)
    /\ nanUsed = FALSE
    /\ nops = 0
    /\ cs = NoSummary
    /\ stk = <<>>

AddWeighted(i, value, count) ==
    /\ nops < MaxOps
    /\ \E r \in AddWeightedSet(dg[i], value, count, 0) :
          /\ dg' = [dg EXCEPT ![i] = r.t]
          /\ call' = [op |-> "AddWeighted", rcv |-> i, other |-> 0, value |-> value,
                      count |-> count, err |-> r.err, pre |-> dg,
                      result |-> Value(NaN), io |-> NoIO]
          /\ added' = IF r.err THEN added
                       ELSE [added EXCEPT ![i].values = @ \cup {value}]
    /\ nanUsed' = (nanUsed \/ IsNaN(value))
    /\ nops' = nops + 1
    /\ UNCHANGED <<cs, stk>>

\* Add(value) is AddWeighted(value, 1)
Add(i, value) ==
    /\ nops < MaxOps
    /\ \E r \in AddWeightedSet(dg[i], value, 1, 0) :
          /\ dg' = [dg EXCEPT ![i] = r.t]
          /\ call' = [op |-> "Add", rcv |-> i, other |-> 0, value |-> value,
                      count |-> 1, err |-> r.err, pre |-> dg,
                      result |-> Value(NaN), io |-> NoIO]
          /\ added' = IF r.err THEN added
                       ELSE [added EXCEPT ![i].values = @ \cup {value}]
    /\ nanUsed' = (nanUsed \/ IsNaN(value))
    /\ nops' = nops + 1
    /\ UNCHANGED <<cs, stk>>

Compress(i) ==
    /\ nops < MaxOps
    /\ \E r \in CompressSet(dg[i], 0) :
          /\ dg' = [dg EXCEPT ![i] = r.t]
          /\ call' = [op |-> "Compress", rcv |-> i, other |-> 0, value |-> NaN,
                      count |-> 0, err |-> r.err, pre |-> dg,
                      result |-> Value(NaN), io |-> NoIO]
    /\ UNCHANGED nanUsed
    /\ nops' = nops + 1
    /\ UNCHANGED <<cs, added, stk>>

Merge(i, j) ==
    /\ nops < MaxOps
    /\ i # j
    /\ \E r \in MergeSet(dg[i], dg[j]) :
          /\ dg' = [dg EXCEPT ![i] = r.t, ![j] = r.other]
          /\ call' = [op |-> "Merge", rcv |-> i, other |-> j, value |-> NaN,
                      count |-> 0, err |-> r.err, pre |-> dg,
                      result |-> Value(NaN), io |-> NoIO]
          /\ added' = [added EXCEPT ![i] =
                          IF r.err THEN Given(@.values, FALSE)
                          ELSE Given(@.values \cup MeansOf(dg[j]), @.whole)]
    /\ UNCHANGED nanUsed
    /\ nops' = nops + 1
    /\ UNCHANGED <<cs, stk>>

\* a query: the digests stay as they are, the call and its result are kept
Quantile(i, q) ==
    /\ nops < MaxOps
    /\ call' = [op |-> "Quantile", rcv |-> i, other |-> 0, value |-> q,
                count |-> 0, err |-> FALSE, pre |-> dg,
                result |-> QuantileOf(dg[i], q), io |-> NoIO]
    /\ nops' = nops + 1
    /\ UNCHANGED <<cs, added, stk>>
    /\ UNCHANGED <<dg, nanUsed>>

CDF(i, value) ==
    /\ nops < MaxOps
    /\ call' = [op |-> "CDF", rcv |-> i, other |-> 0, value |-> value,
                count |-> 0, err |-> FALSE, pre |-> dg,
                result |-> Value(CDFOf(dg[i], value)), io |-> NoIO]
    /\ nops' = nops + 1
    /\ UNCHANGED <<cs, added, stk>>
    /\ UNCHANGED <<dg, nanUsed>>

\* the buffers a caller passes to ToBytes: nil, too small, as large as
\* needed and larger, with what an earlier use left in them
BuffersFor(t) ==
    LET requiredSize == 16 + 4 * SLen(t.summary) + SLen(t.summary) * MaxVarintLen64
    IN  {<<>>, [i \in 1..5 |-> Byte(1)], [i \in 1..requiredSize |-> Byte(1)],
         [i \in 1..(requiredSize + 3) |-> Byte(1)]}

\* where a payload of n centroids and len bytes is cut short
Cuts(n, len) ==
    {0, 3, 11, 15, 16, 16 + 4 * n - 1, 16 + 4 * n, len - 1} \cap 0..(len - 1)

\* the payload with the field at idx holding v
WithField(payload, idx, v) == [payload EXCEPT ![idx + 1].v = v]

\* the inputs of the decoders: the payload of a digest, the payload cut
\* short, and the payload with another version, number of centroids or
\* compression, with both of the latter, with a mean below the one before
\* it, or with a count of 0
InputsFrom(t) ==
    LET payload == AsBytesOf(t)
        n == SLen(t.summary)
    IN  {payload}
        \cup {SubSeq(payload, 1, c) : c \in Cuts(n, Len(payload))}
        \cup {WithField(payload, 0, Float(1)), WithField(payload, 12, Float(-1)),
              WithField(payload, 12, Float(Pow2(22) + 1)),
              WithField(payload, 4, Float(0)),
              WithField(WithField(payload, 4, Float(0)), 12, Float(-1))}
        \cup (IF n >= 2 THEN {WithField(payload, 16 + 4 * (n - 1), Float(-1)),
                              WithField(payload, 16 + 4 * n, Float(0))}
              ELSE {})

AsBytes(i) ==
    /\ nops < MaxCodecOps
    /\ call' = [op |-> "AsBytes", rcv |-> i, other |-> 0, value |-> NaN,
                count |-> 0, err |-> FALSE, pre |-> dg, result |-> Value(NaN),
                io |-> IO(<<>>, AsBytesOf(dg[i]), Nil)]
    /\ nops' = nops + 1
    /\ UNCHANGED <<cs, added, stk>>
    /\ UNCHANGED <<dg, nanUsed>>

ToBytes(i, b) ==
    /\ nops < MaxCodecOps
    /\ call' = [op |-> "ToBytes", rcv |-> i, other |-> 0, value |-> NaN,
                count |-> 0, err |-> FALSE, pre |-> dg, result |-> Value(NaN),
                io |-> IO(b, ToBytesOf(dg[i], b), Nil)]
    /\ nops' = nops + 1
    /\ UNCHANGED <<cs, added, stk>>
    /\ UNCHANGED <<dg, nanUsed>>

\* the streaming decoder on an input made from digest j: it returns a new
\* digest and changes none
FromBytes(j, buf) ==
    /\ nops < MaxCodecOps
    /\ \E r \in FromBytesOf(buf) :
          call' = [op |-> "FromBytes", rcv |-> 0, other |-> j, value |-> NaN,
                   count |-> 0, err |-> r.err, pre |-> dg,
                   result |-> IF r.panic THEN Panic ELSE Value(NaN),
                   io |-> IO(buf, <<>>, r.t)]
    /\ nops' = nops + 1
    /\ UNCHANGED <<cs, added, stk>>
    /\ UNCHANGED <<dg, nanUsed>>

\* the in-place decoder of digest i on an input made from digest j
FromBytesInPlace(i, j, buf) ==
    /\ nops < MaxCodecOps
    /\ \E r \in FromBytesInto(dg[i], buf) :
          /\ dg' = [dg EXCEPT ![i] = r.t]
          /\ call' = [op |-> "FromBytesInPlace", rcv |-> i, other |-> j, value |-> NaN,
                      count |-> 0, err |-> r.err, pre |-> dg, result |-> Value(NaN),
                      io |-> IO(buf, <<>>, Nil)]
          /\ added' = [added EXCEPT ![i] = Given(MeansOf(r.t), ~r.err)]
    /\ nops' = nops + 1
    /\ UNCHANGED <<cs, stk>>
    /\ UNCHANGED nanUsed

Next ==
    \/ \E i \in Ids : \E value \in ValuesOf[i], count \in WeightsOf[i] :
          AddWeighted(i, value, count)
    \/ \E i \in Ids : \E value \in ValuesOf[i] : Add(i, value)
    \/ \E i \in Ids : Compress(i)
    \/ \E i, j \in Ids : Merge(i, j)
    \/ \E i \in Ids : \E q \in Quantiles : Quantile(i, q)
    \/ \E i \in Ids : \E value \in CDFValues : CDF(i, value)

Spec == Init /\ [][Next]_vars

\* the arguments of the calls on the summary
SummaryKeys == {Float(0), Float(50), Rat(101, 2), Float(200), NaN}

SetAtIndexes == {10, 60}

SetAtMeans == {Float(0), Float(11), Float(200)}

SetAtCount == 5

HeadSumEnds == {3, 50, 100}
FloorSums == {Float(-1), Float(0), Rat(5, 2), Float(50), Float(1000)}

InitSummary ==
    /\ dg = [i \in Ids |-> New(CompressionOf[i], i)]
    /\ call = NoCall(dg)
    /\ nanUsed = FALSE
    /\ nops = 0
    /\ added = [i \in Ids |-> Given({}, TRUE)]
    /\ stk = <<>>
    /\ cs \in {Filled(CacheLen), Filled(CacheLen + 1)}

SummaryAdd(key, value) ==
    /\ cs.n < MaxSummaryOps
    /\ cs' = [cachedAdd(cs, key, value) EXCEPT !.n = cs.n + 1, !.op = "Add",
                                                !.pre = cs.s, !.mean = key,
                                                !.count = value]
    /\ UNCHANGED <<dg, call, nanUsed, nops, added, stk>>

SummarySetAt(index, mean, count) ==
    /\ cs.n < MaxSummaryOps
    /\ index < SLen(cs.s)
    /\ cs' = [cachedSetAt(cs, index, mean, count) EXCEPT !.n = cs.n + 1, !.op = "setAt",
                                                      !.pre = cs.s, !.mean = mean,
                                                      !.count = count, !.index = index]
    /\ UNCHANGED <<dg, call, nanUsed, nops, added, stk>>

SummaryHeadSum(end) ==
    /\ cs.n < MaxSummaryOps
    /\ end <= SLen(cs.s)
    /\ cs' = [cs EXCEPT !.cache = cachedHeadSum(cs, end).cache,
                        !.n = cs.n + 1, !.op = "HeadSum", !.pre = cs.s,
                        !.index = end,
                        !.res = <<end, cachedHeadSum(cs, end).sum>>]
    /\ UNCHANGED <<dg, call, nanUsed, nops, added, stk>>

SummaryFloorSum(sum) ==
    /\ cs.n < MaxSummaryOps
    /\ cs' = [cs EXCEPT !.n = cs.n + 1, !.op = "FloorSum", !.pre = cs.s,
                        !.mean = sum, !.res = FloorSum(cs.s, sum)]
    /\ UNCHANGED <<dg, call, nanUsed, nops, added, stk>>

NextSummary ==
    \/ \E key \in SummaryKeys : \E value \in {0, 1} : SummaryAdd(key, value)
    \/ \E index \in SetAtIndexes : \E mean \in SetAtMeans : SummarySetAt(index, mean, SetAtCount)
    \/ \E end \in HeadSumEnds : SummaryHeadSum(end)
    \/ \E sum \in FloorSums : SummaryFloorSum(sum)

SpecSummary == InitSummary /\ [][NextSummary]_vars

\* what the rest of a call depends on when a Compress starts on t: the
\* centroids of t and what the Compress calls around it have left to replay
Key(t, rest) == <<t.summary, [j \in 1..Len(rest) |-> <<rest[j].data, rest[j].k>>]>>

\* Compress of digest i starts on t: the centroids are shuffled and kept to
\* be replayed, and t starts again without centroids.  A Compress whose
\* replay is over when it calls the next one has nothing left to do but to
\* return, and is not kept in rest.  seen holds the keys at which a Compress
\* of the call has started, again tells that this one started at one of them.
Enter(i, t, rest, seen) ==
    \E js \in IntnOutcomes(SLen(t.summary)) :
        /\ stk' = <<[data |-> shuffle(t.summary, js), k |-> 0,
                     seen |-> seen \cup {Key(t, rest)},
                     again |-> Key(t, rest) \in seen]>> \o rest
        /\ dg' = [dg EXCEPT ![i] = [t EXCEPT !.summary = newSummary(t.summary.owner),
                                              !.count = 0]]

\* a call and what it has returned so far
Called(op, i, value, count, err) ==
    [op |-> op, rcv |-> i, other |-> 0, value |-> value, count |-> count,
     err |-> err, pre |-> dg, result |-> Value(NaN), io |-> NoIO]

\* AddWeighted, the Compress it starts being run step by step
AddWeightedStart(i, value, count) ==
    /\ nops < MaxCalls
    /\ stk = <<>>
    /\ \E r \in AddWeightedBody(dg[i], value, count) :
          /\ IF r.full THEN Enter(i, r.t, <<>>, {})
             ELSE dg' = [dg EXCEPT ![i] = r.t] /\ stk' = <<>>
          /\ call' = Called("AddWeighted", i, value, count, r.err)
          /\ added' = IF r.err THEN added
                       ELSE [added EXCEPT ![i].values = @ \cup {value}]
    /\ nanUsed' = (nanUsed \/ IsNaN(value))
    /\ nops' = nops + 1
    /\ UNCHANGED cs

\* Compress, run step by step
CompressStart(i) ==
    /\ nops < MaxCalls
    /\ stk = <<>>
    /\ IF SLen(dg[i].summary) <= 1 THEN UNCHANGED <<dg, stk>>
       ELSE Enter(i, dg[i], <<>>, {})
    /\ call' = Called("Compress", i, NaN, 0, FALSE)
    /\ nops' = nops + 1
    /\ UNCHANGED <<nanUsed, cs, added>>

\* the innermost Compress replays its next centroid with AddWeighted, which
\* may start another Compress; an error ends every Compress that is running
Replay ==
    /\ stk # <<>>
    /\ LET top == stk[1]
           i == call.rcv
           rest == IF top.k + 1 < SLen(top.data)
                   THEN <<[top EXCEPT !.k = @ + 1]>> \o Tail(stk)
                   ELSE Tail(stk)
       IN  \E r \in AddWeightedBody(dg[i], Mean(top.data, top.k), Count(top.data, top.k)) :
              /\ IF r.err THEN dg' = [dg EXCEPT ![i] = r.t] /\ stk' = <<>>
                 ELSE IF r.full THEN Enter(i, r.t, rest, top.seen)
                 ELSE dg' = [dg EXCEPT ![i] = r.t] /\ stk' = rest
              /\ call' = [call EXCEPT !.err = r.err]
    /\ UNCHANGED <<nanUsed, nops, cs, added>>

NextCompress ==
    \/ \E i \in Ids : \E value \in ValuesOf[i], count \in WeightsOf[i] :
          AddWeightedStart(i, value, count)
    \/ \E i \in Ids : CompressStart(i)
    \/ Replay

SpecCompress == Init /\ [][NextCompress]_vars

\* the calls of the serialization on the same digests
NextCodec ==
    \/ \E i \in Ids : AsBytes(i)
    \/ \E i \in Ids : \E b \in BuffersFor(dg[i]) : ToBytes(i, b)
    \/ \E j \in Ids : \E buf \in InputsFrom(dg[j]) : FromBytes(j, buf)
    \/ \E i, j \in Ids : \E buf \in InputsFrom(dg[j]) : FromBytesInPlace(i, j, buf)

SpecCodec == Init /\ [][NextCodec]_vars

(***************************************************************************)
(* Properties                                                              *)
(***************************************************************************)
RECURSIVE SumSeq(_, _)
SumSeq(seq, i) == IF i > Len(seq) THEN 0 ELSE seq[i] + SumSeq(seq, i + 1)

\* the sum of the counts of all centroids
SumCounts(t) == SumSeq(t.summary.counts, 1)

Sorted(t) ==
    \A i \in 1..(SLen(t.summary) - 1) :
        ~Gt(t.summary.means[i], t.summary.means[i + 1])
        /\ ~IsNaN(t.summary.means[i]) /\ ~IsNaN(t.summary.means[i + 1])

NoNaNMeans(t) == \A k \in 1..SLen(t.summary) : ~IsNaN(t.summary.means[k])

\* a call has returned, and the digest it was made on
Returned == call.op # "New"

IsAdd == call.op \in {"Add", "AddWeighted"}

Before(i) == call.pre[i]

SameCentroids(t, u) ==
    /\ t.summary.means = u.summary.means
    /\ t.summary.counts = u.summary.counts
    /\ t.count = u.count

\* C1: as long as no NaN value was passed, Count() equals the sum of the
\* counts of the centroids each time a call returns.
C1_CountIsSumOfCounts ==
    ~nanUsed => \A i \in Ids : dg[i].count = SumCounts(dg[i])

\* C2: after a.Merge(b) returns without error, a.Count() is a's Count()
\* before the call plus b's Count() before the call.
C2_MergePreservesWeight ==
    (call.op = "Merge" /\ ~call.err) =>
        dg[call.rcv].count = Before(call.rcv).count + Before(call.other).count

\* C3: the total count after Compress() returns equals the total count
\* before the call.
C3_CompressKeepsCount ==
    call.op = "Compress" => dg[call.rcv].count = Before(call.rcv).count

C5_LenBounded ==
    \A i \in Ids : SLen(dg[i].summary) <= 20 * dg[i].compression + 1

\* an Add found 20 * compression centroids, and the Compress it started
\* left fewer
C5_Witness ==
    /\ IsAdd /\ ~call.err
    /\ SLen(Before(call.rcv).summary) = 20 * dg[call.rcv].compression
    /\ SLen(dg[call.rcv].summary) < 20 * dg[call.rcv].compression

\* C6: no stored mean is NaN, and an Add or AddWeighted call whose value is
\* NaN returns an error.
C6_NaNRejected ==
    /\ \A i \in Ids : NoNaNMeans(dg[i])
    /\ (IsAdd /\ IsNaN(call.value)) => call.err

\* C7: a call that returns an error leaves the centroids and the total of
\* its digest as they were before the call.
C7_ErrorsHaveNoEffect ==
    (Returned /\ call.err) => SameCentroids(dg[call.rcv], Before(call.rcv))

\* C8: AddWeighted(x, 0) returns an error and leaves the centroids and the
\* total unchanged.
C8_ZeroWeightRejected ==
    (call.op = "AddWeighted" /\ call.count = 0) =>
        call.err /\ SameCentroids(dg[call.rcv], Before(call.rcv))

\* AddWeighted(x, 0) was called on a digest that holds centroids
C8_Witness ==
    /\ call.op = "AddWeighted" /\ call.count = 0
    /\ SLen(Before(call.rcv).summary) > 1

\* C9: a.Merge(b) leaves the donor b as it was (means and counts in order,
\* total and compression) and leaves the compression of a as it was.
C9_MergeKeepsDonor ==
    call.op = "Merge" =>
        /\ dg[call.other] = Before(call.other)
        /\ dg[call.rcv].compression = Before(call.rcv).compression

\* a donor of three centroids or more, which the shuffle reorders, was
\* merged
C9_Witness ==
    /\ call.op = "Merge" /\ ~call.err
    /\ SLen(Before(call.other).summary) >= 3
    /\ dg[call.rcv].count > Before(call.rcv).count

\* C10: a.Merge(b) with b holding no centroid returns no error and leaves
\* the centroids, the total and the compression of a unchanged.
C10_MergeEmptyIsNoop ==
    (call.op = "Merge" /\ SLen(Before(call.other).summary) = 0) =>
        /\ ~call.err
        /\ SameCentroids(dg[call.rcv], Before(call.rcv))
        /\ dg[call.rcv].compression = Before(call.rcv).compression

\* an empty digest was merged into a digest that holds centroids
C10_Witness ==
    /\ call.op = "Merge" /\ SLen(Before(call.other).summary) = 0
    /\ SLen(Before(call.rcv).summary) > 0

\* the digest is in a state without NaN mean, without a count of zero, its
\* total being the sum of its counts
Consistent(t) ==
    /\ NoNaNMeans(t)
    /\ t.count = SumCounts(t)
    /\ \A k \in 1..SLen(t.summary) : t.summary.counts[k] > 0

Queried == dg[call.rcv]

\* C11: on a non-empty digest Quantile(0) is the mean of the first centroid
\* and Quantile(1) is the mean of the last centroid.
C11_QuantileEnds ==
    (call.op = "Quantile" /\ SLen(Queried.summary) > 0) =>
        /\ call.value = Float(0) =>
               call.result = Value(Mean(Queried.summary, 0))
        /\ call.value = Float(1) =>
               call.result = Value(Mean(Queried.summary, SLen(Queried.summary) - 1))

\* C12: on a non-empty digest CDF(x) lies in [0, 1].
C12_CDFInUnit ==
    (call.op = "CDF" /\ SLen(Queried.summary) > 0) =>
        /\ Ge(call.result.v, Float(0))
        /\ Le(call.result.v, Float(1))

\* C13: on a digest with sorted means, q1 <= q2 implies
\* Quantile(q1) <= Quantile(q2).
C13_QuantileMonotone ==
    (call.op = "Quantile" /\ SLen(Queried.summary) > 0 /\ Sorted(Queried)) =>
        \A q2 \in Quantiles :
            Le(call.value, q2) =>
                /\ ~call.result.panic
                /\ Le(call.result.v, QuantileOf(Queried, q2).v)

\* C14: Quantile(q) is NaN on a digest without centroids and the mean of the
\* only centroid on a digest of one centroid.
C14_QuantileSmall ==
    call.op = "Quantile" =>
        /\ SLen(Queried.summary) = 0 => call.result = Value(NaN)
        /\ SLen(Queried.summary) = 1 =>
               call.result = Value(Mean(Queried.summary, 0))

\* Quantile was called on a digest of one centroid of count above 1
C14_Witness ==
    /\ call.op = "Quantile"
    /\ SLen(Queried.summary) = 1
    /\ Count(Queried.summary, 0) > 1
    /\ call.value \notin {Float(0), Float(1)}

\* every mean of the digest is a float32
Representable(t) ==
    \A k \in 1..SLen(t.summary) : float32(t.summary.means[k]) = t.summary.means[k]

\* the digest whose payload the decoder was given, as it was before the call
Source == Before(call.other)

\* the decoder was given the whole payload of a digest
Intact == call.io.buf = AsBytesOf(Source)

\* C15: the streaming decoder, given the payload of a digest whose means are
\* float32 numbers, returns a digest of the same compression, number of
\* centroids, counts and total, whose payload is the one it was given.
C15_StreamRoundTrip ==
    (call.op = "FromBytes" /\ Intact /\ Representable(Source)) =>
        /\ ~call.err
        /\ call.io.decoded.compression = Source.compression
        /\ SLen(call.io.decoded.summary) = SLen(Source.summary)
        /\ call.io.decoded.summary.counts = Source.summary.counts
        /\ call.io.decoded.count = Source.count
        /\ AsBytesOf(call.io.decoded) = call.io.buf

\* C16: an in-place decode of the payload of a digest that succeeds leaves
\* the target with the compression, the number of centroids and the counts
\* of that digest and with the sum of the counts as its total, and with
\* nothing else than a new digest decoding the same payload would hold.
C16_InPlaceRoundTrip ==
    (call.op = "FromBytesInPlace" /\ Intact /\ ~call.err) =>
        /\ dg[call.rcv].compression = Source.compression
        /\ SLen(dg[call.rcv].summary) = SLen(Source.summary)
        /\ dg[call.rcv].summary.counts = Source.summary.counts
        /\ dg[call.rcv].count = SumSeq(Source.summary.counts, 1) % TotalWrap
        /\ \A r \in FromBytesInto(New(0, dg[call.rcv].summary.owner), call.io.buf) :
              dg[call.rcv] = r.t

\* a digest of more centroids and one of fewer were decoded into a digest
\* that held centroids
C16_Witness ==
    /\ call.op = "FromBytesInPlace" /\ Intact /\ ~call.err
    /\ call.rcv # call.other
    /\ SLen(Before(call.rcv).summary) > SLen(Source.summary)
    /\ SLen(Source.summary) > 0
    /\ Before(call.rcv).compression # Source.compression

\* the number of centroids a payload announces
Announced(buf) == buf[13].v.n

\* the digest holds what the buffer announces and nothing else
Replaced(t, buf) ==
    /\ Len(buf) >= 16
    /\ t.compression = buf[5].v.n
    /\ SLen(t.summary) = Announced(buf)
    /\ t.count = SumCounts(t)
    /\ \A k \in 1..SLen(t.summary) : t.summary.counts[k] > 0

\* C17: when the in-place decoder returns an error the target is as it was
\* or holds the digest of the buffer, never a part of each.
C17_FailedDecodeAtomic ==
    (call.op = "FromBytesInPlace" /\ call.err) =>
        \/ dg[call.rcv] = Before(call.rcv)
        \/ Replaced(dg[call.rcv], call.io.buf)

\* the bytes after idx that end a varint
Terminators(buf, idx) ==
    Cardinality({k \in (idx + 1)..Len(buf) : buf[k].v.n < GroupWrap})

\* the input has another version, a number of centroids out of range, or
\* ends before the means and the counts it announces
Malformed(buf) ==
    \/ Len(buf) < 16
    \/ buf[1].v # Float(2)
    \/ Announced(buf) < 0
    \/ Announced(buf) > 4194304
    \/ Len(buf) < 16 + 4 * Announced(buf)
    \/ Terminators(buf, 16 + 4 * Announced(buf)) < Announced(buf)

\* C18: both decoders return an error when the version is not 2, when the
\* number of centroids is negative or above 2^22, and when the input ends
\* before that many means and counts.
C18_DecodersReject ==
    (call.op \in {"FromBytes", "FromBytesInPlace"} /\ Malformed(call.io.buf)) =>
        call.err

\* C19: ToBytes returns the bytes AsBytes returns, whatever the buffer it is
\* given, and neither changes a digest.
C19_ToBytesIsAsBytes ==
    /\ call.op = "ToBytes" =>
          /\ call.io.bytes = AsBytesOf(Before(call.rcv))
          /\ dg = call.pre
    /\ call.op = "AsBytes" =>
          /\ call.io.bytes = AsBytesOf(dg[call.rcv])
          /\ dg = call.pre

\* ToBytes of a digest with centroids was given a buffer longer than the
\* payload
C19_Witness ==
    /\ call.op = "ToBytes"
    /\ SLen(dg[call.rcv].summary) > 1
    /\ Len(call.io.buf) > Len(call.io.bytes)

\* the sum of the first i counts
RECURSIVE SumTo(_, _)
SumTo(counts, i) == IF i = 0 THEN 0 ELSE counts[i] + SumTo(counts, i - 1)

\* C20: after any calls of summary Add, setAt and HeadSum, HeadSum(i) is the
\* sum of counts[0..i) for every i from 0 to Len.
C20_HeadSumIsPrefixSum ==
    \A i \in 0..SLen(cs.s) : cachedHeadSum(cs, i).sum = SumTo(cs.s.counts, i)

\* AddWeighted returned without error after merging the sample into a
\* centroid: the digest held centroids, too few for an insertion to start a
\* Compress, and holds as many as before
Merged ==
    /\ call.op \in {"AddWeighted", "Add"} /\ ~call.err
    /\ SLen(Before(call.rcv).summary) > 0
    /\ SLen(Before(call.rcv).summary) < 20 * Before(call.rcv).compression
    /\ SLen(dg[call.rcv].summary) = SLen(Before(call.rcv).summary)

\* C29: when AddWeighted merges weight w into a centroid of count c the
\* stored count is c + w: the counts of the digest add up to what they added
\* up to before the call plus w.
C29_MergeKeepsCount ==
    Merged => SumCounts(dg[call.rcv]) = SumCounts(Before(call.rcv)) + call.count

\* the window AddWeighted hands to chooseMergeCandidate
Window(t, value) ==
    LET floor == Floor(t.summary, value)
        nb == findNeighbors(t, IF floor = -1 THEN 0 ELSE floor, value)
    IN  nb[1]..(nb[2] - 1)

\* the centroids of least distance to value
Nearest(t, value) ==
    {i \in 0..(SLen(t.summary) - 1) :
        \A j \in 0..(SLen(t.summary) - 1) :
            ~Lt(AbsDiff(Mean(t.summary, j), value), AbsDiff(Mean(t.summary, i), value))}

\* C22: on a digest with sorted means that holds centroids, the window of
\* AddWeighted for a value that is not NaN is the set of the centroids of
\* least distance to the value.
C22_WindowIsNearest ==
    (/\ call.op \in {"AddWeighted", "Add"} /\ ~IsNaN(call.value)
     /\ call.count > 0
     /\ SLen(Before(call.rcv).summary) > 0
     /\ Sorted(Before(call.rcv)) /\ NoNaNMeans(Before(call.rcv))) =>
        Window(Before(call.rcv), call.value) = Nearest(Before(call.rcv), call.value)

\* c + w <= 4 * N * q * (1 - q) / compression for the centroid at index i,
\* q being (S + (c - 1) / 2) / (N - 1), or 1/2 when N is 1
WithinCapacity(t, i, w) ==
    LET c == Count(t.summary, i)
        S == SumTo(t.summary.counts, i)
        q == IF t.count = 1 THEN Rat(1, 2)
             ELSE FDiv(FAdd(Float(S), Rat(c - 1, 2)), Float(t.count - 1))
        k == FDiv(FMul(FMul(Float(4 * t.count), q), FSub(Float(1), q)),
                  Float(t.compression))
    IN  Le(Float(c + w), k)

RemoveAt(seq, p) == [k \in 1..(Len(seq) - 1) |-> IF k < p THEN seq[k] ELSE seq[k + 1]]

\* AddWeighted(value, w) returned on a digest that held centroids, too few
\* for a Compress to start, w being positive and no NaN involved
Added ==
    /\ call.op \in {"AddWeighted", "Add"} /\ ~IsNaN(call.value) /\ call.count > 0
    /\ SLen(Before(call.rcv).summary) > 0
    /\ SLen(Before(call.rcv).summary) < 20 * Before(call.rcv).compression
    /\ NoNaNMeans(Before(call.rcv))

\* C23: AddWeighted(value, w) inserts a centroid (value, w) exactly when no
\* centroid of the window is within capacity; otherwise one centroid of the
\* window that is within capacity has its count raised to c + w, the number
\* of centroids stays and every other centroid is as it was.
C23_MergeOrInsert ==
    Added =>
        LET old == Before(call.rcv)
            new == dg[call.rcv]
            eligible == {i \in Window(old, call.value) : WithinCapacity(old, i, call.count)}
        IN  IF eligible = {}
            THEN \E p \in 1..SLen(new.summary) :
                    /\ new.summary.means[p] = call.value
                    /\ new.summary.counts[p] = call.count
                    /\ RemoveAt(new.summary.means, p) = old.summary.means
                    /\ RemoveAt(new.summary.counts, p) = old.summary.counts
            ELSE /\ SLen(new.summary) = SLen(old.summary)
                 /\ \E i \in eligible : \E p \in 1..SLen(new.summary) :
                       /\ new.summary.counts[p] = Count(old.summary, i) + call.count
                       /\ RemoveAt(new.summary.means, p) = RemoveAt(old.summary.means, i + 1)
                       /\ RemoveAt(new.summary.counts, p) = RemoveAt(old.summary.counts, i + 1)

\* the orders shuffle may leave the centroids of s in, over the outcomes of
\* the RNG
ShuffleResults(s) == {shuffle(s, js) : js \in IntnOutcomes(SLen(s))}

\* the centroids of s, each mean with its count, in the order pi
Reordered(s, pi) ==
    [s EXCEPT !.means = [k \in 1..SLen(s) |-> s.means[pi[k]]],
              !.counts = [k \in 1..SLen(s) |-> s.counts[pi[k]]]]

\* r holds the centroids of s, each as often as s holds it
SamePairs(r, s) ==
    /\ SLen(r) = SLen(s)
    /\ \A k \in 1..SLen(s) :
          Cardinality({p \in 1..SLen(r) : r.means[p] = s.means[k] /\ r.counts[p] = s.counts[k]})
          = Cardinality({p \in 1..SLen(s) : s.means[p] = s.means[k] /\ s.counts[p] = s.counts[k]})

Orders(n) == {pi \in [1..n -> 1..n] : \A a, b \in 1..n : pi[a] = pi[b] => a = b}

\* C24: the shuffle of Compress and of Merge can leave n >= 2 centroids in
\* every one of their n! orders, and leaves them in nothing but an order of
\* the centroids, each mean with its own count.
C24_ShuffleIsFisherYates ==
    (call.op = "Compress" /\ SLen(Before(call.rcv).summary) >= 2) =>
        LET s == Before(call.rcv).summary
        IN  /\ \A r \in ShuffleResults(s) : SamePairs(r, s)
            /\ SLen(s) <= FullShuffleLen =>
                  \A pi \in Orders(SLen(s)) : Reordered(s, pi) \in ShuffleResults(s)

\* the centroids of a summary are sorted and none of the means is NaN
SortedSummary(s) == Sorted([summary |-> s]) /\ NoNaNMeans([summary |-> s])

\* summary.Add has stored a centroid in a sorted summary
Inserted ==
    /\ cs.op = "Add" /\ ~IsNaN(cs.mean) /\ cs.count > 0
    /\ SortedSummary(cs.pre)

\* C25: summary.Add of a mean that is not NaN with a count above 0 stores
\* one centroid at the one index j with means[j-1] <= mean < means[j], after
\* the equal means, the length grows by one, and the other centroids keep
\* their pairs and their order, in a summary short enough for the linear
\* scan and in one that is searched by bisection.
C25_AddInsertsAfterEquals ==
    Inserted =>
        /\ SLen(cs.s) = SLen(cs.pre) + 1
        /\ \E j \in 0..SLen(cs.pre) :
            /\ j = 0 \/ Le(Mean(cs.pre, j - 1), cs.mean)
            /\ j = SLen(cs.pre) \/ Lt(cs.mean, Mean(cs.pre, j))
            /\ cs.s.means = InsertAt(cs.pre.means, j, cs.mean)
            /\ cs.s.counts = InsertAt(cs.pre.counts, j, cs.count)
            /\ \A k \in 0..SLen(cs.pre) :
                    ( /\ k = 0 \/ Le(Mean(cs.pre, k - 1), cs.mean)
                      /\ k = SLen(cs.pre) \/ Lt(cs.mean, Mean(cs.pre, k)) ) => k = j

\* an Add by bisection of a mean that the summary already holds, after an
\* Add by linear scan
C25_Witness ==
    /\ Inserted
    /\ SLen(cs.pre) >= ScanLen
    /\ cs.n = 2
    /\ \E k \in 1..SLen(cs.pre) : cs.pre.means[k] = cs.mean

\* the indexes whose head sum is at most the bound
Within(s, sum) == {i \in 0..(SLen(s) - 1) : Le(Float(SumTo(s.counts, i)), sum)}

\* C26: FloorSum returns the largest index whose head sum is at most the
\* bound, with that head sum, and index -1 with sum 0 when there is none.
C26_FloorSumIsLargest ==
    cs.op = "FloorSum" =>
        IF Within(cs.pre, cs.mean) = {} THEN cs.res = <<-1, 0>>
        ELSE /\ cs.res[1] \in Within(cs.pre, cs.mean)
             /\ \A i \in Within(cs.pre, cs.mean) : i <= cs.res[1]
             /\ cs.res[2] = SumTo(cs.pre.counts, cs.res[1])

\* FloorSum has stopped inside a summary whose counts are not all the same,
\* at a head sum equal to the bound
C26_Witness ==
    /\ cs.op = "FloorSum"
    /\ cs.res[1] > 0 /\ cs.res[1] < SLen(cs.pre) - 1
    /\ Float(cs.res[2]) = cs.mean
    /\ \E k \in 1..SLen(cs.pre) : cs.pre.counts[k] > 1

\* C27: setAt on a sorted summary, with any mean that is not NaN, leaves the
\* means sorted; the centroids are the previous ones with the pair of the
\* slot replaced, each count at the position of its mean.
C27_SetAtKeepsSorted ==
    (cs.op = "setAt" /\ SortedSummary(cs.pre)) =>
        /\ SortedSummary(cs.s)
        /\ SLen(cs.s) = SLen(cs.pre)
        /\ \E p \in 1..SLen(cs.s) :
            /\ cs.s.means[p] = cs.mean /\ cs.s.counts[p] = cs.count
            /\ RemoveAt(cs.s.means, p) = RemoveAt(cs.pre.means, cs.index + 1)
            /\ RemoveAt(cs.s.counts, p) = RemoveAt(cs.pre.counts, cs.index + 1)

\* setAt has moved a centroid more than one position to the right
C27_Witness ==
    /\ cs.op = "setAt" /\ SortedSummary(cs.pre)
    /\ \E p \in 1..SLen(cs.s) :
        /\ p > cs.index + 2
        /\ cs.s.means[p] = cs.mean /\ cs.s.counts[p] = cs.count
        /\ cs.pre.counts[cs.index + 1] # cs.count

\* the smallest and the largest of a set of values
Smallest(values) == CHOOSE v \in values : \A w \in values : ~Lt(w, v)

Largest(values) == CHOOSE v \in values : \A w \in values : ~Gt(w, v)

\* all the values the digest has been given are known, none of them is NaN
Known(i) ==
    /\ added[i].whole
    /\ added[i].values # {}
    /\ \A v \in added[i].values : ~IsNaN(v)

\* C28: after any calls of Add, AddWeighted, Merge and Compress the mean of
\* the first centroid is the smallest value the digest was ever given and the
\* mean of the last centroid is the largest.
C28_ExtremesKept ==
    \A i \in Ids :
        Known(i) =>
            /\ SLen(dg[i].summary) > 0
            /\ Mean(dg[i].summary, 0) = Smallest(added[i].values)
            /\ Mean(dg[i].summary, SLen(dg[i].summary) - 1) = Largest(added[i].values)

\* what every digest has to be: a compression of 1 or more, counts of 1 or
\* more, means that are sorted and not NaN, and a total that is their sum
Valid(t) ==
    /\ t.compression >= 1
    /\ \A k \in 1..SLen(t.summary) : t.summary.counts[k] >= 1
    /\ Sorted(t) /\ NoNaNMeans(t)
    /\ t.count = SumCounts(t)

\* a decoder has returned, and without an error
Accepted(op) == call.op = op /\ ~call.result.panic /\ ~call.err

\* C30: whenever one of the decoders returns without error, whatever the
\* bytes, the digest it leaves is valid; and no decoder panics.
C30_DecodedIsValid ==
    /\ Accepted("FromBytes") => Valid(call.io.decoded)
    /\ Accepted("FromBytesInPlace") => Valid(dg[call.rcv])
    /\ call.op \in {"FromBytes", "FromBytesInPlace"} => ~call.result.panic

\* C21: every Compress, and every AddWeighted that starts one, returns,
\* whatever the digest and whatever the RNG returns: no Compress starts where
\* a Compress of the same call has started before, with the same centroids
\* and the same centroids left to replay around it, from where the outcomes
\* of the RNG that led to it once lead to it again, without end.
C21_CompressReturns == \A j \in 1..Len(stk) : ~stk[j].again

====
